---- MODULE Spec2Model ----
(***************************************************************************)
(* Model of GraphCacheServer (src/storage/storage.py): the device-side     *)
(* feature cache of PaGraph.  The state is the object's fields; there is   *)
(* one action per public method.  Tensors are records [rows, size1]: the   *)
(* sequence of rows and the per-row width.  Local ids are 0..NodeNum-1 and *)
(* Python's 0-based indexing is kept: slot s of a buffer is rows[s+1].     *)
(***************************************************************************)
EXTENDS Integers, Sequences, FiniteSets, TLC

\* ---------------------------------------------------------------- bounds
NodeNum == 3
MaxDeg == 1
MaxLayers == 2
MaxReqIds == 2
MaxDirectLen == 1
MaxPopulations == 2

\* ------------------------------------------------------ program constants
Headroom == 512 * 1024 * 1024
BytesPerElement == 4

\* ------------------------------------------------------- the environment
LocalIds == 0 .. (NodeNum - 1)

\* nid_map: local id -> id in the full graph (constructor argument).
nid_map == [i \in LocalIds |-> 2 * i + 5]

Fields == {"features", "norm"}

\* Width of each field in the host store's node frame.
FieldDim(name) == IF name = "features" THEN 2 ELSE 1

\* graph._node_frame: the row the host store holds for a global id.
NodeFrameRow(g, name) ==
  IF name = "features" THEN <<g, 100 + g>> ELSE <<200 + g>>

\* total_memory of the device, and the peak allocations tried.
TotalMemory == 1024 * 1024 * 1024
AvailableChoices == {-12, -4, 0, 24, 36}
PeakChoices == {TotalMemory - Headroom - a : a \in AvailableChoices}

EmbedNameLists == {<<"features">>, <<"features", "norm">>}

\* dgl_g.out_degrees(): the graphs tried by the placement specification,
\* and the one local graph the gather specification runs on (ids 0 and 1
\* tie for the largest out-degree).
DegreeSeqs == [LocalIds -> 0 .. MaxDeg]

LocalGraph == [i \in LocalIds |-> IF i < 2 THEN 1 ELSE 0]

Range(s) == {s[i] : i \in DOMAIN s}

\* Duplicate-free sequences of local ids of length at most n.
DistinctSeqs(n) ==
  UNION {{s \in [1 .. k -> LocalIds] : \A i, j \in 1 .. k : i # j => s[i] # s[j]}
         : k \in 0 .. n}

RECURSIVE TotalIds(_)
TotalIds(nf) == IF nf = <<>> THEN 0 ELSE Len(Head(nf)) + TotalIds(Tail(nf))

\* Sampling results: one duplicate-free id list per hop, at most MaxReqIds
\* requested ids in all.  Every hop requests at least one id, except in the
\* one-hop result that requests none.
NodeFlows ==
  {<<<<>>>>} \cup
  UNION {{nf \in [1 .. l -> DistinctSeqs(MaxReqIds) \ {<<>>}] :
            TotalIds(nf) <= MaxReqIds}
         : l \in 1 .. MaxLayers}

\* --------------------------------------------------------------- tensors
Tensor(rows, d) == [rows |-> rows, size1 |-> d]

Size0(t) == Len(t.rows)

UninitRow(d) == [k \in 1 .. d |-> -1]

\* torch.cuda.FloatTensor(n, d): allocated, contents not yet written.
EmptyTensor(n, d) == Tensor([j \in 1 .. n |-> UninitRow(d)], d)

\* t[idx] for a sequence idx of 0-based row indices.
IndexRows(t, idx) == Tensor([j \in 1 .. Len(idx) |-> t.rows[idx[j] + 1]], t.size1)

IndexInRange(t, idx) == \A j \in 1 .. Len(idx) : idx[j] >= 0 /\ idx[j] < Size0(t)

\* Number of true entries of mask among positions 1..j.
Rank(mask, j) == Cardinality({i \in 1 .. j : mask[i]})

\* seq[mask]: the entries at the true positions, in order.
MaskSelect(seq, mask) ==
  LET n == Rank(mask, Len(seq))
  IN [k \in 1 .. n |-> seq[CHOOSE j \in 1 .. Len(seq) : mask[j] /\ Rank(mask, j) = k]]

\* Mutant: the last masked row is not written.
MaskAssignSkipLast(dst, mask, src) ==
  Tensor([j \in 1 .. Size0(dst) |->
            IF mask[j] /\ Rank(mask, j) < Rank(mask, Size0(dst))
              THEN src.rows[Rank(mask, j)] ELSE dst.rows[j]],
         dst.size1)

\* dst[mask] = src: the k-th true position receives row k of src.
MaskAssign(dst, mask, src) ==
  Tensor([j \in 1 .. Size0(dst) |->
            IF mask[j] THEN src.rows[Rank(mask, j)] ELSE dst.rows[j]],
         dst.size1)

\* d[k] = v on a Python dict.
DictSet(d, k, v) == [x \in (DOMAIN d) \cup {k} |-> IF x = k THEN v ELSE d[x]]

EmptyDict == <<>>

\* Mutant: the sign of a negative quotient is lost.
TruncDivAbs(a, b) == IF a >= 0 THEN a \div b ELSE (-a) \div b

\* int(a / b) for b > 0: Python's int() truncates toward zero.
TruncDiv(a, b) == IF a >= 0 THEN a \div b ELSE -((-a) \div b)

\* seq[:k] with Python's slice semantics (a negative k counts from the end).
SliceTo(seq, k) ==
  LET n == Len(seq)
      stop == IF k >= 0 THEN (IF k < n THEN k ELSE n)
              ELSE (IF n + k > 0 THEN n + k ELSE 0)
  IN SubSeq(seq, 1, stop)

\* torch.arange(n) as a sequence.
Arange(n) == [j \in 1 .. n |-> j - 1]

\* Mutant: the sort is ascending.
ArgSortAsc(deg) ==
  {p \in [1 .. NodeNum -> LocalIds] :
     /\ \A i, j \in 1 .. NodeNum : i # j => p[i] # p[j]
     /\ \A i \in 1 .. (NodeNum - 1) : deg[p[i]] <= deg[p[i + 1]]}

\* torch.argsort(out_degrees, descending=True): the sort is not stable, so
\* any permutation of the ids with non-increasing degree may be returned.
ArgSortDesc(deg) ==
  {p \in [1 .. NodeNum -> LocalIds] :
     /\ \A i, j \in 1 .. NodeNum : i # j => p[i] # p[j]
     /\ \A i \in 1 .. (NodeNum - 1) : deg[p[i]] >= deg[p[i + 1]]}

\* ----------------------------------------------------------------- state
VARIABLES cpu_flag, gpu_flag, cached_num, capability, full_cached, dims,
          total_dim, gpu_fix_cache, localid2cacheid, node_frames, last_call,
          dgl_g, populations

cacheVars == <<cpu_flag, gpu_flag, cached_num, capability, full_cached, dims,
               total_dim, gpu_fix_cache, localid2cacheid>>

vars == <<cpu_flag, gpu_flag, cached_num, capability, full_cached, dims,
          total_dim, gpu_fix_cache, localid2cacheid, node_frames, last_call,
          dgl_g, populations>>

\* The record of the most recent call: its name, its arguments and whether
\* it raised.  node_frames holds the per-hop frames of the sampling result
\* handed to that call when it was a fetch_data, and is empty otherwise.
\* dgl_g is the local graph, given by its out-degree per local id.
\* data_rows is the row count of the buffers handed to cache_fix_data,
\* available the free device memory auto_cache computed (line 76), and
\* layers what each hop of a fetch_data did, order the hops whose frame it
\* set, in the order it set them.
Call(op, err, nids, nf) ==
  [op |-> op, err |-> err, nids |-> nids, nodeflow |-> nf,
   data_rows |-> Len(nids), available |-> 0, layers |-> <<>>,
   order |-> <<>>]

\* A hop of the sampling result whose frame has not been set.
NoFrame == [written |-> FALSE, frame |-> EmptyDict]

NodeFrame(frame) == [written |-> TRUE, frame |-> frame]

InitCache ==
  /\ cpu_flag = [i \in LocalIds |-> TRUE]
  /\ gpu_flag = [i \in LocalIds |-> FALSE]
  /\ cached_num = 0
  /\ capability = NodeNum
  /\ full_cached = FALSE
  /\ dims = EmptyDict
  /\ total_dim = 0
  /\ gpu_fix_cache = EmptyDict
  /\ localid2cacheid = [i \in LocalIds |-> 0]
  /\ node_frames = <<>>
  /\ last_call = Call("__init__", "none", <<>>, <<>>)
  /\ populations = 0

Init == InitCache /\ dgl_g = LocalGraph

InitPlacement == InitCache /\ dgl_g \in DegreeSeqs

\* -------------------------------------------------- get_feat_from_server
get_feat_from_server(nids, embed_names) ==
  [name \in Range(embed_names) |->
     Tensor([j \in 1 .. Len(nids) |-> NodeFrameRow(nid_map[nids[j]], name)],
            FieldDim(name))]

\* ------------------------------------------------------------ init_field
RECURSIVE SetDims(_, _, _)
SetDims(d, names, feats) ==
  IF names = <<>> THEN d
  ELSE SetDims(DictSet(d, Head(names), feats[Head(names)].size1), Tail(names), feats)

RECURSIVE SumDims(_, _)
SumDims(names, feats) ==
  IF names = <<>> THEN 0
  ELSE feats[Head(names)].size1 + SumDims(Tail(names), feats)

init_field(embed_names) ==
  LET nid == <<0>>
      feats == get_feat_from_server(nid, embed_names)
  IN /\ dims' = SetDims(dims, embed_names, feats)
     /\ total_dim' = SumDims(embed_names, feats)

InitField ==
  \E embed_names \in EmbedNameLists :
    /\ init_field(embed_names)
    /\ UNCHANGED <<cpu_flag, gpu_flag, cached_num, capability, full_cached,
                   gpu_fix_cache, localid2cacheid>>
    /\ node_frames' = <<>>
    /\ last_call' = Call("init_field", "none", <<>>, <<>>)
    /\ UNCHANGED <<dgl_g, populations>>

\* -------------------------------------------------------- cache_fix_data
\* Mutant: the row counts are never compared.
RowsNeverMismatch(nids, data) == FALSE

\* The assertion of line 131.  Every frame handed to cache_fix_data here is
\* the result of one get_feat_from_server call, so all its buffers have the
\* same row count: the assertion fails on the first field or on none.
RowsMismatch(nids, data) ==
  \E name \in DOMAIN data : Size0(data[name]) # Len(nids)

\* Mutant: the slots are numbered from 1.
SetSlotsFromOne(slot, nids) ==
  [i \in LocalIds |->
     IF i \in Range(nids)
       THEN CHOOSE j \in 1 .. Len(nids) : nids[j] = i
       ELSE slot[i]]

\* self.localid2cacheid[nids] = torch.arange(rows)
SetSlots(slot, nids) ==
  [i \in LocalIds |->
     IF i \in Range(nids)
       THEN (CHOOSE j \in 1 .. Len(nids) : nids[j] = i) - 1
       ELSE slot[i]]

\* Mutant: the ids outside nids are reset to the opposite value.
SetFlagsReplace(flag, nids, value) ==
  [i \in LocalIds |-> IF i \in Range(nids) THEN value ELSE ~value]

\* Mutant: both flag arrays are set to True at nids.
SetFlagsTrue(flag, nids, value) ==
  [i \in LocalIds |-> IF i \in Range(nids) THEN TRUE ELSE flag[i]]

\* flag[nids] = value
SetFlags(flag, nids, value) ==
  [i \in LocalIds |-> IF i \in Range(nids) THEN value ELSE flag[i]]

\* Mutant: the flags are set before the row counts are compared.
cache_fix_data_flags_first(nids, data, is_full) ==
  LET rows == Len(nids)
  IN /\ localid2cacheid' = SetSlots(localid2cacheid, nids)
     /\ cached_num' = rows
     /\ cpu_flag' = SetFlags(cpu_flag, nids, FALSE)
     /\ gpu_flag' = SetFlags(gpu_flag, nids, TRUE)
     /\ IF RowsMismatch(nids, data)
          THEN UNCHANGED <<dims, gpu_fix_cache, full_cached>>
          ELSE /\ dims' = [name \in (DOMAIN dims) \cup (DOMAIN data) |->
                             IF name \in DOMAIN data THEN data[name].size1
                             ELSE dims[name]]
               /\ gpu_fix_cache' =
                    [name \in (DOMAIN gpu_fix_cache) \cup (DOMAIN data) |->
                       IF name \in DOMAIN data THEN data[name]
                       ELSE gpu_fix_cache[name]]
               /\ full_cached' = is_full

\* Lines 126-137.  The slot map and cached_num are written before the loop
\* that holds the assertion; the flags and full_cached after it.
cache_fix_data(nids, data, is_full) ==
  LET rows == Len(nids)
  IN /\ localid2cacheid' = SetSlots(localid2cacheid, nids)
     /\ cached_num' = rows
     /\ IF RowsMismatch(nids, data)
          THEN UNCHANGED <<dims, gpu_fix_cache, cpu_flag, gpu_flag, full_cached>>
          ELSE /\ dims' = [name \in (DOMAIN dims) \cup (DOMAIN data) |->
                             IF name \in DOMAIN data THEN data[name].size1
                             ELSE dims[name]]
               /\ gpu_fix_cache' =
                    [name \in (DOMAIN gpu_fix_cache) \cup (DOMAIN data) |->
                       IF name \in DOMAIN data THEN data[name]
                       ELSE gpu_fix_cache[name]]
               /\ cpu_flag' = SetFlags(cpu_flag, nids, FALSE)
               /\ gpu_flag' = SetFlags(gpu_flag, nids, TRUE)
               /\ full_cached' = is_full

CacheFixErr(nids, data) ==
  IF RowsMismatch(nids, data) THEN "AssertionError" ELSE "none"

\* The id lists tried in direct calls: the short lists, and the list of all
\* the ids in descending order.
DirectNids ==
  DistinctSeqs(MaxDirectLen) \cup {[j \in 1 .. NodeNum |-> NodeNum - j]}

\* A direct call by the user.  data holds the host rows of nids, or of nids
\* without its last id (a frame one row short); is_full is only passed
\* as True together with a list of all the ids.
CacheFixData ==
  \E nids \in DirectNids, embed_names \in EmbedNameLists,
     short \in BOOLEAN, is_full \in BOOLEAN :
    /\ populations < MaxPopulations
    /\ populations' = populations + 1
    /\ short => Len(nids) > 0
    /\ is_full => Len(nids) = NodeNum
    /\ LET dnids == IF short THEN SubSeq(nids, 1, Len(nids) - 1) ELSE nids
           data == get_feat_from_server(dnids, embed_names)
       IN /\ cache_fix_data(nids, data, is_full)
          /\ last_call' = [Call("cache_fix_data", CacheFixErr(nids, data),
                                 nids, <<>>)
                              EXCEPT !.data_rows = Len(dnids)]
    /\ UNCHANGED <<capability, total_dim, dgl_g>>
    /\ node_frames' = <<>>

\* ------------------------------------------------------------ auto_cache
auto_cache(peak_allocated_mem, out_degrees, embed_names) ==
  LET total_mem == TotalMemory
      available == total_mem - peak_allocated_mem - Headroom
  IN IF total_dim = 0
       THEN \* available / (self.total_dim * 4) raises ZeroDivisionError
            /\ UNCHANGED cacheVars
            /\ last_call' = [Call("auto_cache", "ZeroDivisionError", <<>>, <<>>)
                                EXCEPT !.available = available]
       ELSE LET cap == TruncDiv(available, total_dim * BytesPerElement)
            IN /\ capability' = cap
               /\ UNCHANGED total_dim
               /\ IF cap > NodeNum
                    THEN LET full_nids == Arange(NodeNum)
                             data_frame == get_feat_from_server(full_nids, embed_names)
                         IN /\ cache_fix_data(full_nids, data_frame, TRUE)
                            /\ last_call' = [Call("auto_cache", "none", full_nids, <<>>)
                                                EXCEPT !.available = available]
                    ELSE \E sort_nid \in ArgSortDesc(out_degrees) :
                           LET cache_nid == SliceTo(sort_nid, cap)
                               data_frame == get_feat_from_server(cache_nid, embed_names)
                           IN /\ cache_fix_data(cache_nid, data_frame, FALSE)
                              /\ last_call' = [Call("auto_cache", "none", cache_nid, <<>>)
                                                  EXCEPT !.available = available]

AutoCache ==
  \E peak \in PeakChoices, embed_names \in EmbedNameLists :
    /\ populations < MaxPopulations
    /\ populations' = populations + 1
    /\ auto_cache(peak, dgl_g, embed_names)
    /\ node_frames' = <<>>
    /\ UNCHANGED dgl_g

\* ------------------------------------------------------------ fetch_data
\* What one hop did: the get_feat_from_server call it made, if any, and the
\* output rows its device branch and its host branch wrote.
NoCall == [made |-> FALSE, nids |-> <<>>]

NoTrace == [server_call |-> NoCall, gpu_rows |-> {}, cpu_rows |-> {}]

\* Mutant: the host store is called even when no id is host-resident.
ServerCallAlways(nids_in_cpu) == [made |-> TRUE, nids |-> nids_in_cpu]

\* if nids_in_cpu.size(0) != 0: get_feat_from_server(nids_in_cpu, ...)
ServerCall(nids_in_cpu) ==
  IF Len(nids_in_cpu) # 0 THEN [made |-> TRUE, nids |-> nids_in_cpu] ELSE NoCall

\* list(d): the keys of a dict as a sequence.
ListOf(S) == CHOOSE s \in [1 .. Cardinality(S) -> S] : Range(s) = S

\* One iteration of the loop of fetch_from_cache (lines 181-185): the frame
\* of one hop, or a raised index error when an id is not a row of a buffer.
fetch_from_cache_layer(tnid) ==
  LET ok == \A name \in DOMAIN gpu_fix_cache :
              IndexInRange(gpu_fix_cache[name], tnid)
  IN [ok |-> ok,
      frame |-> IF ok
                  THEN [name \in DOMAIN gpu_fix_cache |->
                          IndexRows(gpu_fix_cache[name], tnid)]
                  ELSE EmptyDict,
      trace |-> [server_call |-> NoCall,
                 gpu_rows |-> 1 .. Len(tnid),
                 cpu_rows |-> {}]]

\* One iteration of the loop of fetch_data (lines 154-175).  It raises when
\* a field of dims has no buffer in gpu_fix_cache or when a slot is not a
\* row of the buffer.
fetch_data_layer(tnid) ==
  LET n == Len(tnid)
      gpu_mask == [j \in 1 .. n |-> gpu_flag[tnid[j]]]
      nids_in_gpu == MaskSelect(tnid, gpu_mask)
      cpu_mask == [j \in 1 .. n |-> cpu_flag[tnid[j]]]
      nids_in_cpu == MaskSelect(tnid, cpu_mask)
      frame0 == [name \in DOMAIN dims |-> EmptyTensor(n, dims[name])]
      cacheid == [j \in 1 .. Len(nids_in_gpu) |-> localid2cacheid[nids_in_gpu[j]]]
      ok == \/ Len(nids_in_gpu) = 0
            \/ \A name \in DOMAIN dims :
                 /\ name \in DOMAIN gpu_fix_cache
                 /\ IndexInRange(gpu_fix_cache[name], cacheid)
      frame1 == IF Len(nids_in_gpu) # 0
                  THEN [name \in DOMAIN dims |->
                          MaskAssign(frame0[name], gpu_mask,
                                     IndexRows(gpu_fix_cache[name], cacheid))]
                  ELSE frame0
      cpu_data_frame == get_feat_from_server(nids_in_cpu, ListOf(DOMAIN dims))
      frame2 == IF Len(nids_in_cpu) # 0
                  THEN [name \in DOMAIN dims |->
                          MaskAssign(frame1[name], cpu_mask, cpu_data_frame[name])]
                  ELSE frame1
  IN [ok |-> ok,
      frame |-> IF ok THEN frame2 ELSE EmptyDict,
      trace |-> [server_call |-> ServerCall(nids_in_cpu),
                 gpu_rows |-> IF Len(nids_in_gpu) # 0
                                THEN {j \in 1 .. n : gpu_mask[j]} ELSE {},
                 cpu_rows |-> IF Len(nids_in_cpu) # 0
                                THEN {j \in 1 .. n : cpu_mask[j]} ELSE {}]]

\* The per-hop loop: hops are filled in order and the first hop that raises
\* aborts the call, leaving the later hops without a frame.
RunLayers(layers) ==
  LET bad == {i \in DOMAIN layers : ~layers[i].ok}
      stop == IF bad = {} THEN Len(layers) + 1
              ELSE CHOOSE i \in bad : \A k \in bad : i <= k
  IN [err |-> IF bad = {} THEN "none" ELSE "Raised",
      frames |-> [i \in DOMAIN layers |->
                    IF i < stop THEN NodeFrame(layers[i].frame) ELSE NoFrame],
      trace |-> [i \in DOMAIN layers |->
                   IF i < stop THEN layers[i].trace ELSE NoTrace],
      order |-> [k \in 1 .. (stop - 1) |-> k]]

fetch_from_cache(nodeflow) ==
  RunLayers([i \in DOMAIN nodeflow |-> fetch_from_cache_layer(nodeflow[i])])

fetch_general(nodeflow) ==
  RunLayers([i \in DOMAIN nodeflow |-> fetch_data_layer(nodeflow[i])])

fetch_data(nodeflow) ==
  IF full_cached THEN fetch_from_cache(nodeflow) ELSE fetch_general(nodeflow)

\* Mutant: a fetch moves the requested host-resident ids to the device set.
FetchDataPromote ==
  \E nodeflow \in NodeFlows :
    LET res == fetch_data(nodeflow)
        req == UNION {Range(nodeflow[i]) : i \in DOMAIN nodeflow}
    IN /\ node_frames' = res.frames
       /\ last_call' = [Call("fetch_data", res.err, <<>>, nodeflow)
                           EXCEPT !.layers = res.trace, !.order = res.order]
       /\ gpu_flag' = [i \in LocalIds |-> gpu_flag[i] \/ i \in req]
       /\ cpu_flag' = [i \in LocalIds |-> cpu_flag[i] /\ i \notin req]
       /\ UNCHANGED <<cached_num, capability, full_cached, dims, total_dim,
                      gpu_fix_cache, localid2cacheid, dgl_g, populations>>

FetchData ==
  \E nodeflow \in NodeFlows :
    LET res == fetch_data(nodeflow)
    IN /\ node_frames' = res.frames
       /\ last_call' = [Call("fetch_data", res.err, <<>>, nodeflow)
                           EXCEPT !.layers = res.trace, !.order = res.order]
       /\ UNCHANGED <<cacheVars, dgl_g, populations>>

\* ---------------------------------------------------------- specification
Next == InitField \/ AutoCache \/ CacheFixData \/ FetchData

Spec == Init /\ [][Next]_vars

\* The placement policy on every graph: setup calls only.
NextPlacement == InitField \/ AutoCache

SpecPlacement == InitPlacement /\ [][NextPlacement]_vars

TypeOK ==
  /\ cpu_flag \in [LocalIds -> BOOLEAN]
  /\ gpu_flag \in [LocalIds -> BOOLEAN]
  /\ cached_num \in 0 .. NodeNum
  /\ full_cached \in BOOLEAN
  /\ DOMAIN dims \subseteq Fields
  /\ DOMAIN gpu_fix_cache \subseteq Fields

\* ================================================================ claims
Populated == last_call.op \in {"auto_cache", "cache_fix_data"} /\ last_call.err = "none"

AutoCached == last_call.op = "auto_cache" /\ last_call.err = "none"

Fetched == last_call.op = "fetch_data"

OnDevice == {id \in LocalIds : gpu_flag[id]}

OnHost == {id \in LocalIds : cpu_flag[id]}

\* C1: in every reachable state every local id has exactly one of gpu_flag
\* and cpu_flag true.
C1_PartitionInvariant ==
  \A id \in LocalIds : gpu_flag[id] # cpu_flag[id]

\* C1 witness: a fetch has run on a cache holding some ids on the device and
\* some on the host.
C1_Witness ==
  /\ Fetched
  /\ OnDevice # {}
  /\ OnHost # {}
  /\ populations = 2

\* C2: after any fetch_data call, every hop has a frame in which row j of
\* every field is the host store's row of the j-th requested id.
C2_OrderPreservation ==
  Fetched =>
    \A i \in DOMAIN last_call.nodeflow :
      /\ node_frames[i].written
      /\ \A name \in DOMAIN node_frames[i].frame :
           \A j \in 1 .. Len(last_call.nodeflow[i]) :
             node_frames[i].frame[name].rows[j]
               = NodeFrameRow(nid_map[last_call.nodeflow[i][j]], name)

\* C3: whenever full_cached is true, the fast path and the general path give
\* the same result (frames and fields) for every request.
C3_FastPathEquivalence ==
  full_cached =>
    \A nodeflow \in NodeFlows :
      fetch_from_cache(nodeflow) = fetch_general(nodeflow)

\* C4: after an auto_cache that computed capability >= node_num, full_cached
\* is true and every id is device-resident.
C4_FullCacheDecision ==
  (AutoCached /\ capability >= NodeNum) =>
    (full_cached /\ OnDevice = LocalIds)

\* C5: after an auto_cache that computed capability <= 0, nothing is placed:
\* cached_num is 0, no id is device-resident, every id is host-resident and
\* full_cached is false.
C5_ZeroCapacity ==
  (AutoCached /\ capability <= 0) =>
    (cached_num = 0 /\ OnDevice = {} /\ OnHost = LocalIds /\ ~full_cached)

\* C6: after a population with the id list ids returns, the slot of ids[i]
\* is i, the slots of ids are exactly 0..|ids|-1, and cached_num is |ids|.
C6_SlotBijection ==
  Populated =>
    LET ids == last_call.nids
    IN /\ \A i \in 1 .. Len(ids) : localid2cacheid[ids[i]] = i - 1
       /\ {localid2cacheid[id] : id \in Range(ids)} = 0 .. (Len(ids) - 1)
       /\ cached_num = Len(ids)

\* C6 witness: a population with at least two ids, the first of them not
\* id 0, has returned.
C6_Witness ==
  /\ Populated
  /\ Len(last_call.nids) >= 2
  /\ last_call.nids[1] # 0

\* C7: after every population the device-resident ids are exactly the ids of
\* that population and all the other ids are host-resident.
C7_Replacement ==
  Populated =>
    (OnDevice = Range(last_call.nids) /\ OnHost = LocalIds \ Range(last_call.nids))

\* C8: after an auto_cache with 0 < capability < node_num, the ids placed are
\* capability distinct ids in non-increasing out-degree order, none of them
\* with a smaller out-degree than an id left out; their slots follow that
\* order, cached_num is capability and full_cached is false.
C8_TopDegreePlacement ==
  (AutoCached /\ 0 < capability /\ capability < NodeNum) =>
    LET ids == last_call.nids
    IN /\ Len(ids) = capability
       /\ \A i, j \in 1 .. Len(ids) : i # j => ids[i] # ids[j]
       /\ \A i \in 1 .. (Len(ids) - 1) : dgl_g[ids[i]] >= dgl_g[ids[i + 1]]
       /\ \A s \in Range(ids) : \A u \in LocalIds \ Range(ids) :
            dgl_g[s] >= dgl_g[u]
       /\ \A i \in 1 .. Len(ids) : localid2cacheid[ids[i]] = i - 1
       /\ cached_num = capability
       /\ ~full_cached

\* C8 witness: a partial placement on a graph whose degrees are not all
\* equal, leaving out an id of smaller degree.
C8_Witness ==
  /\ AutoCached
  /\ 0 < capability
  /\ capability < NodeNum
  /\ \E s \in Range(last_call.nids) : \E u \in LocalIds \ Range(last_call.nids) :
       dgl_g[s] > dgl_g[u]

\* C9: a fetch_data step leaves every field of the cache unchanged.
C9_FetchReadOnly ==
  [][last_call'.op = "fetch_data" => UNCHANGED cacheVars]_vars

\* C9 witness: a fetch on the general path has filled a frame from both the
\* device cache and the host store.
C9_Witness ==
  /\ Fetched
  /\ last_call.err = "none"
  /\ ~full_cached
  /\ \E i \in DOMAIN last_call.nodeflow :
       /\ Range(last_call.nodeflow[i]) \cap OnDevice # {}
       /\ Range(last_call.nodeflow[i]) \cap OnHost # {}

C11_RowCountPrecondition ==
  last_call.op = "cache_fix_data" =>
    (last_call.err = "AssertionError"
       <=> last_call.data_rows # Len(last_call.nids))

\* C11 witness: a call with buffers one row short has raised on a cache that
\* already holds ids.
C11_Witness ==
  /\ last_call.op = "cache_fix_data"
  /\ last_call.err = "AssertionError"
  /\ last_call.data_rows < Len(last_call.nids)
  /\ OnDevice # {}

\* C12: of two consecutive auto_cache runs with the same total_dim, the one
\* with more available device memory computes a capability at least as large.
C12_CapacityMonotonicity ==
  [][(/\ AutoCached
      /\ last_call'.op = "auto_cache"
      /\ last_call'.err = "none"
      /\ total_dim' = total_dim
      /\ last_call.available <= last_call'.available)
     => capability <= capability']_vars

\* C12 witness: an auto_cache run with negative available memory after a run
\* with more memory.
C12_Witness ==
  /\ AutoCached
  /\ last_call.available < 0
  /\ capability < 0
  /\ populations = 2

\* C13: once some id is device-resident, some id is device-resident in every
\* later state.
C13_NoWayBackToEmpty ==
  [][OnDevice # {} => OnDevice' # {}]_vars

\* C13 witness: a population with no ids has returned and ids of an earlier
\* population are still device-resident.
C13_Witness ==
  /\ Populated
  /\ last_call.nids = <<>>
  /\ OnDevice # {}

\* C14: the slot map restricted to the device-resident ids is a bijection
\* onto 0 .. cached_num - 1, cached_num is the number of device-resident ids
\* and every such slot is a row index of each device buffer.
C14_GlobalSlotMap ==
  /\ cached_num = Cardinality(OnDevice)
  /\ \A id \in OnDevice : localid2cacheid[id] \in 0 .. cached_num - 1
  /\ \A a, b \in OnDevice : a # b => localid2cacheid[a] # localid2cacheid[b]
  /\ \A name \in DOMAIN gpu_fix_cache : \A id \in OnDevice :
        localid2cacheid[id] < Size0(gpu_fix_cache[name])

\* C15: full_cached is true exactly when cached_num equals node_num, and
\* exactly when every local id is device-resident.
C15_FullCachedDefinition ==
  /\ full_cached <=> cached_num = NodeNum
  /\ full_cached <=> OnDevice = LocalIds

\* C16: once init_field has run, no auto_cache or cache_fix_data call changes
\* an entry of dims or adds a field to it.
C16_DimsFixedByInitField ==
  [][(/\ total_dim # 0
      /\ last_call'.op \in {"auto_cache", "cache_fix_data"})
     => dims' = dims]_vars

RECURSIVE SumValues(_, _)
SumValues(f, S) ==
  IF S = {} THEN 0
  ELSE LET x == CHOOSE y \in S : TRUE
       IN f[x] + SumValues(f, S \ {x})

\* C17: in every reachable state total_dim is the sum of the values of dims.
C17_DimensionTotal ==
  total_dim = SumValues(dims, DOMAIN dims)

\* C18: during a fetch_data call no host-store call is made when full_cached
\* is true; otherwise a hop makes at most one call, whose id list is the
\* requested ids of the hop with cpu_flag true, in request order, holding no
\* device-resident id, and a hop whose ids are all device-resident makes none.
C18_HostStoreCalls ==
  Fetched =>
    \A i \in DOMAIN last_call.layers :
      LET tnid == last_call.nodeflow[i]
          call == last_call.layers[i].server_call
          InCpu(id) == cpu_flag[id]
      IN /\ full_cached => ~call.made
         /\ call.made =>
              /\ call.nids = SelectSeq(tnid, InCpu)
              /\ \A j \in 1 .. Len(call.nids) : ~gpu_flag[call.nids[j]]
         /\ (\A j \in 1 .. Len(tnid) : gpu_flag[tnid[j]]) => ~call.made

\* C18 witness: a two-hop general-path fetch in which one hop called the host
\* store and the other, all device-resident, did not.
C18_Witness ==
  /\ Fetched
  /\ last_call.err = "none"
  /\ ~full_cached
  /\ Len(last_call.nodeflow) = 2
  /\ \E i, k \in DOMAIN last_call.layers :
       /\ last_call.layers[i].server_call.made
       /\ ~last_call.layers[k].server_call.made
       /\ last_call.layers[k].gpu_rows # {}

\* C19: after a successful fetch_data every hop has its frame set, once and
\* in increasing hop order, every row of every field of the frame is written,
\* and in the general path every row position is written by exactly one of
\* the device branch and the host branch.
C19_CompleteFrames ==
  (Fetched /\ last_call.err = "none") =>
    LET nodeflow == last_call.nodeflow
    IN /\ last_call.order = [k \in 1 .. Len(nodeflow) |-> k]
       /\ Len(node_frames) = Len(nodeflow)
       /\ \A i \in 1 .. Len(nodeflow) :
            LET n == Len(nodeflow[i])
                frame == node_frames[i].frame
                trace == last_call.layers[i]
            IN /\ node_frames[i].written
               /\ \A name \in DOMAIN frame :
                    /\ Size0(frame[name]) = n
                    /\ \A j \in 1 .. n :
                         frame[name].rows[j] # UninitRow(frame[name].size1)
               /\ ~full_cached =>
                    /\ DOMAIN frame = DOMAIN dims
                    /\ trace.gpu_rows \cap trace.cpu_rows = {}
                    /\ trace.gpu_rows \cup trace.cpu_rows = 1 .. n

\* C19 witness: a successful two-hop general-path fetch with fields to fill,
\* one row written by the device branch and one by the host branch.
C19_Witness ==
  /\ Fetched
  /\ last_call.err = "none"
  /\ ~full_cached
  /\ Len(last_call.nodeflow) = 2
  /\ DOMAIN dims # {}
  /\ \E i, k \in DOMAIN last_call.layers :
       /\ last_call.layers[i].gpu_rows # {}
       /\ last_call.layers[k].cpu_rows # {}

\* C20 as stated: when cache_fix_data aborts on the row-count assertion, the
\* flags and full_cached keep their values and, where ids were already
\* device-resident, so do cached_num and the slots of those ids.
C20_FailedPopulationUntouched ==
  [][(/\ last_call'.op = "cache_fix_data"
      /\ last_call'.err = "AssertionError")
     => /\ cpu_flag' = cpu_flag
        /\ gpu_flag' = gpu_flag
        /\ full_cached' = full_cached
        /\ OnDevice # {} =>
             /\ cached_num' = cached_num
             /\ \A id \in OnDevice : localid2cacheid'[id] = localid2cacheid[id]]_vars

\* C20 amended: when cache_fix_data aborts on the row-count assertion, the
\* flags and full_cached keep their values, while cached_num is the number of
\* ids passed, the slot of each id passed is its position in the list and the
\* slots of the other ids keep their values.
C20_FailedPopulationFlagsUntouched ==
  [][(/\ last_call'.op = "cache_fix_data"
      /\ last_call'.err = "AssertionError")
     => LET nids == last_call'.nids
        IN /\ cpu_flag' = cpu_flag
           /\ gpu_flag' = gpu_flag
           /\ full_cached' = full_cached
           /\ cached_num' = Len(nids)
           /\ \A j \in 1 .. Len(nids) : localid2cacheid'[nids[j]] = j - 1
           /\ \A id \in LocalIds \ Range(nids) :
                localid2cacheid'[id] = localid2cacheid[id]]_vars

\* C20 witness: a call has aborted on the assertion on a cache that held
\* ids, leaving a cached_num that is not the number of device-resident ids.
C20_Witness ==
  /\ last_call.op = "cache_fix_data"
  /\ last_call.err = "AssertionError"
  /\ OnDevice # {}
  /\ cached_num = Len(last_call.nids)
  /\ cached_num # Cardinality(OnDevice)

====
